---- MODULE Spec2Model ----
(***************************************************************************)
(* Model of the financial calculator (src/kalkulacka.py) and of its HTTP   *)
(* front end (src/app.py).                                                 *)
(*                                                                         *)
(* Numbers.  The program computes with floats; the model computes with     *)
(* exact rationals <<num, den>> (den > 0, lowest terms).  An exception     *)
(* raised by an arithmetic operation is a value <<code, 0>> that every     *)
(* later operation passes on, as the exception unwinds the Python frames.  *)
(* Annual rates are drawn from the rates whose monthly growth factor       *)
(* (1 + rate)^(1/12) is rational, so that the twelfth root is exact.       *)
(***************************************************************************)
EXTENDS Integers, Sequences, FiniteSets, TLC

VARIABLES
    call,       \* the calculator call in progress: [fn, input], or NoCall
    outcome,    \* what that call produced: a returned dict or a raised exception
    body,       \* the JSON body of the POST /calc request in progress, or NoBody
    response,   \* the HTTP response to it
    invoked,    \* the calculator the handler invoked for it ("none" when none)
    pc,         \* console: <<the prompt function running, where it stands>>
    raw,        \* console: the line input() returned, until the loop drops it
    rejected,   \* console: entries rejected so far by the running prompt
    notices,    \* console: "try again" messages printed by the running prompt
    ret         \* console: the value the prompt function returned

vars == <<call, outcome, body, response, invoked, pc, raw, rejected, notices, ret>>

calcVars == <<call, outcome>>
httpVars == <<body, response, invoked>>
consoleVars == <<pc, raw, rejected, notices, ret>>

----------------------------------------------------------------------------
(* Bounds of the model. *)

\* amounts (target, rent, one-time deposit) range over -1 .. MaxAmount
MaxAmount == 2
\* horizons range over k/24 years, k in -2 .. MaxYears24 (so half months occur)
MaxYears24 == 3
\* monthly growth factors range over k/2, k in 0 .. MaxGrowth2
MaxGrowth2 == 3
\* console lines have at most MaxLine characters
MaxLine == 3
\* a prompt is observed for at most MaxRejected rejected entries
MaxRejected == 2

----------------------------------------------------------------------------
(* Exact rational arithmetic standing for Python's float arithmetic. *)

Abs(x) == IF x < 0 THEN -x ELSE x

RECURSIVE GCD(_, _)
GCD(a, b) == IF b = 0 THEN a ELSE GCD(b, a % b)

\* the rational n/d (d # 0) in lowest terms with a positive denominator
Q(n, d) ==
    LET g == GCD(Abs(n), Abs(d))
        s == IF d < 0 THEN -1 ELSE 1
    IN  <<(s * n) \div g, (s * d) \div g>>

FromInt(n) == <<n, 1>>
Zero == FromInt(0)
One == FromInt(1)

\* ZeroDivisionError("float division by zero"): x / 0.0
FloatDivisionByZero == <<1, 0>>
\* ZeroDivisionError("0.0 cannot be raised to a negative power"): 0.0 ** -n
ZeroToNegativePower == <<2, 0>>

\* the evaluation of q raised an exception
Raised(q) == q[2] = 0

QAdd(a, b) ==
    IF Raised(a) THEN a ELSE IF Raised(b) THEN b
    ELSE Q(a[1] * b[2] + b[1] * a[2], a[2] * b[2])

QSub(a, b) ==
    IF Raised(a) THEN a ELSE IF Raised(b) THEN b
    ELSE Q(a[1] * b[2] - b[1] * a[2], a[2] * b[2])

QMul(a, b) ==
    IF Raised(a) THEN a ELSE IF Raised(b) THEN b
    ELSE Q(a[1] * b[1], a[2] * b[2])

\* Python's / : raises ZeroDivisionError on a zero divisor
QDiv(a, b) ==
    IF Raised(a) THEN a ELSE IF Raised(b) THEN b
    ELSE IF b[1] = 0 THEN FloatDivisionByZero
    ELSE Q(a[1] * b[2], a[2] * b[1])

QLt(a, b) == a[1] * b[2] < b[1] * a[2]

RECURSIVE QPowNat(_, _)
QPowNat(a, n) == IF n = 0 THEN One ELSE QMul(a, QPowNat(a, n - 1))

\* Python's float ** int : x ** 0 = 1.0, 0.0 ** -n raises ZeroDivisionError
QPow(a, n) ==
    IF Raised(a) THEN a
    ELSE IF n >= 0 THEN QPowNat(a, n)
    ELSE IF a[1] = 0 THEN ZeroToNegativePower
    ELSE QPowNat(Q(a[2], a[1]), -n)

\* Python's int(round(x)): nearest integer, ties to the even one
PyRound(q) ==
    LET f == q[1] \div q[2]
        r == q[1] - f * q[2]
    IN  IF 2 * r < q[2] THEN f
        ELSE IF 2 * r > q[2] THEN f + 1
        ELSE IF f % 2 = 0 THEN f ELSE f + 1

\* the monthly growth factors of the model
GrowthSet == {Q(k, 2) : k \in 0..MaxGrowth2}

\* x ** (1.0 / 12.0) for x the twelfth power of a growth factor
Root12(x) == CHOOSE g \in GrowthSet : QPowNat(g, 12) = x

----------------------------------------------------------------------------
(* Types of kalkulacka.py *)

InvestmentType == {"one_time", "monthly", "combined"}

AmountSet == {FromInt(a) : a \in -1..MaxAmount}
YearsSet == {Q(k, 24) : k \in -2..MaxYears24}
RateSet == {QSub(QPowNat(g, 12), One) : g \in GrowthSet}

LumpSumInput ==
    [target_amount : AmountSet, years : YearsSet, annual_rate_accum : RateSet,
     investment_type : InvestmentType, one_time_investment : AmountSet]

RentaInput ==
    [monthly_rent : AmountSet, years_rent : YearsSet, annual_rate_rent : RateSet,
     years_saving : YearsSet, annual_rate_accum : RateSet,
     investment_type : InvestmentType, one_time_investment : AmountSet]

----------------------------------------------------------------------------
(* The math library *)

eff_monthly_rate(annual_rate) == QSub(Root12(QAdd(One, annual_rate)), One)

fv_lump_sum(pv, i, n_months) == QMul(pv, QPow(QAdd(One, i), n_months))

pv_from_fv(fv, i, n_months) == QDiv(fv, QPow(QAdd(One, i), n_months))

fv_annuity(monthly_payment, i, n_months) ==
    IF i = Zero THEN QMul(monthly_payment, FromInt(n_months))
    ELSE QDiv(QMul(monthly_payment, QSub(QPow(QAdd(One, i), n_months), One)), i)

annuity_from_fv(fv, i, n_months) ==
    IF Raised(fv) THEN fv
    ELSE IF i = Zero THEN QDiv(fv, FromInt(n_months))
    ELSE QDiv(QMul(fv, i), QSub(QPow(QAdd(One, i), n_months), One))

pv_renta_required(monthly_rent, annual_rate_rent, years_rent) ==
    LET i2 == eff_monthly_rate(annual_rate_rent)
        n == PyRound(QMul(years_rent, FromInt(12)))
    IN  IF i2 = Zero THEN QMul(monthly_rent, FromInt(n))
        ELSE QDiv(QMul(monthly_rent, QSub(One, QPow(QAdd(One, i2), -n))), i2)

----------------------------------------------------------------------------
(* Outcomes of a Python call *)

Return(value) == [kind |-> "return", value |-> value]

ExcText(e) ==
    IF e = FloatDivisionByZero THEN "float division by zero"
    ELSE "0.0 cannot be raised to a negative power"

\* the exception carried by the raised value e
RaiseOf(e) == [kind |-> "raise", exc |-> "ZeroDivisionError", text |-> ExcText(e)]

\* ClampRemaining with the clamp left out
ClampRemaining_unclamped(remaining) == remaining

\* ClampRemaining with the comparison turned round: `if remaining > 0`
ClampRemaining_inverted(remaining) ==
    IF Raised(remaining) THEN remaining
    ELSE IF QLt(Zero, remaining) THEN Zero ELSE remaining

\* `if remaining < 0: remaining = 0.0`
ClampRemaining(remaining) ==
    IF Raised(remaining) THEN remaining
    ELSE IF QLt(remaining, Zero) THEN Zero ELSE remaining

----------------------------------------------------------------------------
(* The plan calculators *)

\* lump_sum_result echoing the horizon as the whole months it was rounded to
lump_sum_result_rounded(input_data) ==
    [goal_type |-> "lump_sum",
     target_amount |-> input_data.target_amount,
     years |-> Q(PyRound(QMul(input_data.years, FromInt(12))), 12),
     annual_rate_accum |-> input_data.annual_rate_accum,
     investment_type |-> input_data.investment_type]

\* lump_sum_result echoing every input, the one-time investment included
lump_sum_result_echo_all(input_data) ==
    [goal_type |-> "lump_sum",
     target_amount |-> input_data.target_amount,
     years |-> input_data.years,
     annual_rate_accum |-> input_data.annual_rate_accum,
     investment_type |-> input_data.investment_type,
     one_time_investment |-> input_data.one_time_investment]

\* the dict compute_lump_sum starts from
lump_sum_result(input_data) ==
    [goal_type |-> "lump_sum",
     target_amount |-> input_data.target_amount,
     years |-> input_data.years,
     annual_rate_accum |-> input_data.annual_rate_accum,
     investment_type |-> input_data.investment_type]

\* the dict compute_renta starts from
renta_result(input_data, required_wealth_at_rent_start) ==
    [goal_type |-> "renta",
     monthly_rent |-> input_data.monthly_rent,
     years_rent |-> input_data.years_rent,
     annual_rate_rent |-> input_data.annual_rate_rent,
     years_saving |-> input_data.years_saving,
     annual_rate_accum |-> input_data.annual_rate_accum,
     investment_type |-> input_data.investment_type,
     required_wealth_at_rent_start |-> required_wealth_at_rent_start]

compute_lump_sum(input_data) ==
    LET i == eff_monthly_rate(input_data.annual_rate_accum)
        n == PyRound(QMul(input_data.years, FromInt(12)))
        result == lump_sum_result(input_data)
    IN  IF input_data.investment_type = "one_time" THEN
            LET pv_needed == pv_from_fv(input_data.target_amount, i, n)
            IN  IF Raised(pv_needed) THEN RaiseOf(pv_needed)
                ELSE Return(result @@ [required_wealth_today |-> pv_needed])
        ELSE IF input_data.investment_type = "monthly" THEN
            LET monthly == annuity_from_fv(input_data.target_amount, i, n)
            IN  IF Raised(monthly) THEN RaiseOf(monthly)
                ELSE Return(result @@ [monthly_investment |-> monthly])
        ELSE
            LET fv_one_time == fv_lump_sum(input_data.one_time_investment, i, n)
                remaining == ClampRemaining(QSub(input_data.target_amount, fv_one_time))
                monthly == annuity_from_fv(remaining, i, n)
            IN  IF Raised(monthly) THEN RaiseOf(monthly)
                ELSE Return(result @@
                        [one_time_investment |-> input_data.one_time_investment,
                         monthly_investment |-> monthly,
                         fv_one_time_investment |-> fv_one_time,
                         target_amount_remaining_for_monthly |-> remaining])

\* compute_renta accumulating over the drawdown horizon: years_rent for years_saving
compute_renta_rent_horizon(input_data) ==
    LET required_wealth_at_rent_start ==
            pv_renta_required(input_data.monthly_rent,
                              input_data.annual_rate_rent,
                              input_data.years_rent)
        i1 == eff_monthly_rate(input_data.annual_rate_accum)
        m == PyRound(QMul(input_data.years_rent, FromInt(12)))
        result == renta_result(input_data, required_wealth_at_rent_start)
    IN  IF Raised(required_wealth_at_rent_start) THEN
            RaiseOf(required_wealth_at_rent_start)
        ELSE IF input_data.investment_type = "one_time" THEN
            LET pv_today == pv_from_fv(required_wealth_at_rent_start, i1, m)
            IN  IF Raised(pv_today) THEN RaiseOf(pv_today)
                ELSE Return(result @@ [required_wealth_today |-> pv_today])
        ELSE IF input_data.investment_type = "monthly" THEN
            LET monthly == annuity_from_fv(required_wealth_at_rent_start, i1, m)
            IN  IF Raised(monthly) THEN RaiseOf(monthly)
                ELSE Return(result @@ [monthly_investment |-> monthly])
        ELSE
            LET fv_one_time == fv_lump_sum(input_data.one_time_investment, i1, m)
                remaining == ClampRemaining(QSub(required_wealth_at_rent_start, fv_one_time))
                monthly == annuity_from_fv(remaining, i1, m)
            IN  IF Raised(monthly) THEN RaiseOf(monthly)
                ELSE Return(result @@
                        [one_time_investment |-> input_data.one_time_investment,
                         monthly_investment |-> monthly,
                         fv_one_time_investment |-> fv_one_time,
                         target_amount_remaining_for_monthly |-> remaining])

compute_renta(input_data) ==
    LET required_wealth_at_rent_start ==
            pv_renta_required(input_data.monthly_rent,
                              input_data.annual_rate_rent,
                              input_data.years_rent)
        i1 == eff_monthly_rate(input_data.annual_rate_accum)
        m == PyRound(QMul(input_data.years_saving, FromInt(12)))
        result == renta_result(input_data, required_wealth_at_rent_start)
    IN  IF Raised(required_wealth_at_rent_start) THEN
            RaiseOf(required_wealth_at_rent_start)
        ELSE IF input_data.investment_type = "one_time" THEN
            LET pv_today == pv_from_fv(required_wealth_at_rent_start, i1, m)
            IN  IF Raised(pv_today) THEN RaiseOf(pv_today)
                ELSE Return(result @@ [required_wealth_today |-> pv_today])
        ELSE IF input_data.investment_type = "monthly" THEN
            LET monthly == annuity_from_fv(required_wealth_at_rent_start, i1, m)
            IN  IF Raised(monthly) THEN RaiseOf(monthly)
                ELSE Return(result @@ [monthly_investment |-> monthly])
        ELSE
            LET fv_one_time == fv_lump_sum(input_data.one_time_investment, i1, m)
                remaining == ClampRemaining(QSub(required_wealth_at_rent_start, fv_one_time))
                monthly == annuity_from_fv(remaining, i1, m)
            IN  IF Raised(monthly) THEN RaiseOf(monthly)
                ELSE Return(result @@
                        [one_time_investment |-> input_data.one_time_investment,
                         monthly_investment |-> monthly,
                         fv_one_time_investment |-> fv_one_time,
                         target_amount_remaining_for_monthly |-> remaining])

----------------------------------------------------------------------------
(* The HTTP front end (app.py) *)

\* JSON values of a request body, and the parsed Optional[float] fields
Absent == [t |-> "absent"]
Null == [t |-> "null"]
Num(q) == [t |-> "num", v |-> q]

IsNone(x) == x.t = "null"

GoalTypeLiteral == {"lump_sum", "renta"}
InvestmentTypeLiteral == {"one_time", "monthly", "combined"}

\* the request bodies of the model: every field absent, null or a number
NotGiven == {Absent, Null}
BodySet ==
    [goal_type : GoalTypeLiteral \cup {"mortgage"},
     investment_type : InvestmentTypeLiteral \cup {"weekly"},
     one_time_investment : NotGiven \cup {Num(Zero), Num(FromInt(2))},
     target_amount : NotGiven \cup {Num(One)},
     years : NotGiven \cup {Num(Q(1, 24)), Num(Q(1, 12))},
     annual_rate_accum : NotGiven \cup {Num(Zero)},
     monthly_rent : NotGiven \cup {Num(One)},
     years_rent : NotGiven \cup {Num(Q(1, 12))},
     annual_rate_rent : NotGiven \cup {Num(Zero)},
     years_saving : NotGiven \cup {Num(Q(1, 12))}]

\* a field of the model class: the body's value, or the declared default
Field(b, k, default) == IF b[k].t = "absent" THEN default ELSE b[k]

\* CalcRequest(**body)
CalcRequest(b) ==
    [goal_type |-> b.goal_type,
     investment_type |-> b.investment_type,
     one_time_investment |-> Field(b, "one_time_investment", Num(Zero)),
     target_amount |-> Field(b, "target_amount", Null),
     years |-> Field(b, "years", Null),
     annual_rate_accum |-> Field(b, "annual_rate_accum", Null),
     monthly_rent |-> Field(b, "monthly_rent", Null),
     years_rent |-> Field(b, "years_rent", Null),
     annual_rate_rent |-> Field(b, "annual_rate_rent", Null),
     years_saving |-> Field(b, "years_saving", Null)]

\* the Literal fields the body violates, in declaration order
SchemaErrors(b) ==
    (IF b.goal_type \in GoalTypeLiteral THEN <<>> ELSE <<"goal_type">>)
    \o (IF b.investment_type \in InvestmentTypeLiteral THEN <<>> ELSE <<"investment_type">>)

HTTPException(status_code, detail) ==
    [kind |-> "raise", exc |-> "HTTPException", status_code |-> status_code, detail |-> detail]

RequiredLumpSum == <<"target_amount", "years", "annual_rate_accum">>
RequiredRenta ==
    <<"monthly_rent", "years_rent", "annual_rate_rent", "years_saving", "annual_rate_accum">>

\* MissingFields with `not getattr(req, k)` for `getattr(req, k) is None`:
\* a field given as 0 counts as missing
MissingFields_falsy(req, keys) ==
    SelectSeq(keys, LAMBDA k : IsNone(req[k]) \/ req[k].v = Zero)

\* [k for k in keys if getattr(req, k) is None]
MissingFields(req, keys) == SelectSeq(keys, LAMBDA k : IsNone(req[k]))

\* `x or 0.0`
OrZero(x) == IF IsNone(x) \/ x.v = Zero THEN Zero ELSE x.v

\* the body of the handler's try block: what it produced, and the calculator it called
calc_try(req) ==
    LET inv_type == req.investment_type
    IN  IF req.goal_type = "lump_sum" THEN
            LET missing == MissingFields(req, RequiredLumpSum)
            IN  IF missing # <<>> THEN
                    [out |-> HTTPException(400, [text |-> "Missing fields for lump_sum", fields |-> missing]),
                     invoked |-> "none"]
                ELSE
                    [out |-> compute_lump_sum(
                                [target_amount |-> req.target_amount.v,
                                 years |-> req.years.v,
                                 annual_rate_accum |-> req.annual_rate_accum.v,
                                 investment_type |-> inv_type,
                                 one_time_investment |-> OrZero(req.one_time_investment)]),
                     invoked |-> "compute_lump_sum"]
        ELSE IF req.goal_type = "renta" THEN
            LET missing == MissingFields(req, RequiredRenta)
            IN  IF missing # <<>> THEN
                    [out |-> HTTPException(400, [text |-> "Missing fields for renta", fields |-> missing]),
                     invoked |-> "none"]
                ELSE
                    [out |-> compute_renta(
                                [monthly_rent |-> req.monthly_rent.v,
                                 years_rent |-> req.years_rent.v,
                                 annual_rate_rent |-> req.annual_rate_rent.v,
                                 years_saving |-> req.years_saving.v,
                                 annual_rate_accum |-> req.annual_rate_accum.v,
                                 investment_type |-> inv_type,
                                 one_time_investment |-> OrZero(req.one_time_investment)]),
                     invoked |-> "compute_renta"]
        ELSE
            [out |-> HTTPException(400, [text |-> "Unknown goal_type", fields |-> <<>>]),
             invoked |-> "none"]

\* calc_except without the `except HTTPException: raise` clause: every
\* exception of the try block becomes a 500
calc_except_catch_all(t) ==
    IF t.out.kind = "raise"
    THEN [out |-> HTTPException(500, [text |-> IF t.out.exc = "HTTPException"
                                               THEN t.out.detail.text ELSE t.out.text,
                                      fields |-> <<>>]),
          invoked |-> t.invoked]
    ELSE t

\* the except clauses, on what the try block produced: an HTTPException passes,
\* any other exception becomes a 500
calc_except(t) ==
    IF t.out.kind = "raise" /\ t.out.exc = "HTTPException" THEN t
    ELSE IF t.out.kind = "raise"
    THEN [out |-> HTTPException(500, [text |-> t.out.text, fields |-> <<>>]),
          invoked |-> t.invoked]
    ELSE t

\* the handler of POST /calc
calc(req) == calc_except(calc_try(req))

\* the response the framework renders from what the handler returned (200) or
\* from the HTTPException it raised
render(h) ==
    [response |-> IF h.out.kind = "return"
                  THEN [status |-> 200, json |-> h.out.value]
                  ELSE [status |-> h.out.status_code, detail |-> h.out.detail],
     invoked |-> h.invoked]

\* the route: the framework validates the body against CalcRequest (422 on a
\* violation, the handler not being called), calls the handler and renders
\* its outcome
post_calc(b) ==
    IF SchemaErrors(b) # <<>> THEN
        [response |-> [status |-> 422,
                       detail |-> [text |-> "Unprocessable Entity", fields |-> SchemaErrors(b)]],
         invoked |-> "none"]
    ELSE render(calc(CalcRequest(b)))

----------------------------------------------------------------------------
(* The console prompts (kalkulacka.py) *)

\* the characters a console line is made of
Alphabet == {" ", ",", ".", "1", "2", "x"}
Lines == UNION {[1..n -> Alphabet] : n \in 0..MaxLine}

DigitChars == {"0", "1", "2", "3", "4", "5", "6", "7", "8", "9"}
DigitVal(c) ==
    ("0" :> 0 @@ "1" :> 1 @@ "2" :> 2 @@ "3" :> 3 @@ "4" :> 4 @@
     "5" :> 5 @@ "6" :> 6 @@ "7" :> 7 @@ "8" :> 8 @@ "9" :> 9)[c]

\* ValueError("could not convert string to float")
ValueError == <<3, 0>>

\* str.strip(): the leading and the trailing spaces go
RECURSIVE lstrip(_)
lstrip(s) == IF s # <<>> /\ Head(s) = " " THEN lstrip(Tail(s)) ELSE s
RECURSIVE rstrip(_)
rstrip(s) ==
    IF s # <<>> /\ s[Len(s)] = " " THEN rstrip(SubSeq(s, 1, Len(s) - 1)) ELSE s
strip(s) == rstrip(lstrip(s))

\* str.replace(old, "") and str.replace(old, new) for single characters
remove_char(s, old) == SelectSeq(s, LAMBDA c : c # old)
replace_char(s, old, new) == [k \in DOMAIN s |-> IF s[k] = old THEN new ELSE s[k]]

RECURSIVE DigitsValue(_)
DigitsValue(s) ==
    IF s = <<>> THEN 0
    ELSE 10 * DigitsValue(SubSeq(s, 1, Len(s) - 1)) + DigitVal(s[Len(s)])

RECURSIVE Pow10(_)
Pow10(n) == IF n = 0 THEN 1 ELSE 10 * Pow10(n - 1)

\* float(s) for s made of the model's characters: digits with at most one
\* point and at least one digit, anything else raising ValueError
float(s) ==
    LET points == {k \in DOMAIN s : s[k] = "."}
        digits == remove_char(s, ".")
    IN  IF /\ digits # <<>>
           /\ \A k \in DOMAIN digits : digits[k] \in DigitChars
           /\ Cardinality(points) <= 1
        THEN LET decimals == IF points = {} THEN 0
                             ELSE Len(s) - (CHOOSE k \in points : TRUE)
             \* the digits and the scale are evaluated once, then reduced
             IN  CHOOSE q \in {Q(n, d) : n \in {DigitsValue(digits)},
                                          d \in {Pow10(decimals)}} : TRUE
        ELSE ValueError

\* ask_float_turn without .replace(",", "."): only the point is a separator
ask_float_turn_point_only(line) ==
    LET text == remove_char(strip(line), " ")
        value == float(text)
    IN  IF Raised(value) THEN [kind |-> "retry", printed |-> 1]
        ELSE [kind |-> "return", value |-> value]

\* one turn of ask_float's loop on the line input() returned
ask_float_turn(line) ==
    LET text == replace_char(remove_char(strip(line), " "), ",", ".")
        value == float(text)
    IN  IF Raised(value) THEN [kind |-> "retry", printed |-> 1]
        ELSE [kind |-> "return", value |-> value]

\* the menu of interactive_cli and of the main entry: its keys
MenuKeys == {<<"1">>, <<"2">>}

\* one turn of ask_choice's loop on the line input() returned
ask_choice_turn(line, choices) ==
    LET ans == strip(line)
    IN  IF ans \in choices THEN [kind |-> "return", value |-> ans]
        ELSE [kind |-> "retry", printed |-> 1]

----------------------------------------------------------------------------
(* Direct calls of the calculators (the console flow, the manual tests) *)

NoCall == [fn |-> "none"]
NoOutcome == [kind |-> "none"]
NoBody == [goal_type |-> "none"]
NoResponse == [status |-> 0]
NoPrompt == <<"none", "idle">>

Init ==
    /\ call = NoCall
    /\ outcome = NoOutcome
    /\ body = NoBody
    /\ response = NoResponse
    /\ invoked = "none"
    /\ pc = NoPrompt
    /\ raw = <<>>
    /\ rejected = 0
    /\ notices = 0
    /\ ret = <<>>

Idle == call = NoCall /\ body = NoBody /\ pc = NoPrompt

CallComputeLumpSum ==
    /\ Idle
    /\ \E input_data \in LumpSumInput :
        /\ call' = [fn |-> "compute_lump_sum", input |-> input_data]
        /\ outcome' = compute_lump_sum(input_data)
    /\ UNCHANGED <<httpVars, consoleVars>>

CallComputeRenta ==
    /\ Idle
    /\ \E input_data \in RentaInput :
        /\ call' = [fn |-> "compute_renta", input |-> input_data]
        /\ outcome' = compute_renta(input_data)
    /\ UNCHANGED <<httpVars, consoleVars>>

\* the caller drops the input and the result
DiscardResult ==
    /\ call # NoCall
    /\ call' = NoCall
    /\ outcome' = NoOutcome
    /\ UNCHANGED <<httpVars, consoleVars>>

PostCalc ==
    /\ Idle
    /\ \E b \in BodySet :
        /\ body' = b
        /\ response' = post_calc(b).response
        /\ invoked' = post_calc(b).invoked
    /\ UNCHANGED <<calcVars, consoleVars>>

\* the exchange is over: nothing of it is kept
CloseExchange ==
    /\ body # NoBody
    /\ body' = NoBody
    /\ response' = NoResponse
    /\ invoked' = "none"
    /\ UNCHANGED <<calcVars, consoleVars>>

\* ask_float(prompt) or ask_choice(prompt, choices) is called
StartPrompt ==
    /\ Idle
    /\ \E f \in {"ask_float", "ask_choice"} : pc' = <<f, "input">>
    /\ raw' = <<>>
    /\ rejected' = 0
    /\ notices' = 0
    /\ ret' = <<>>
    /\ UNCHANGED <<calcVars, httpVars>>

\* input() returns the line the user typed
ReadLine ==
    /\ pc[2] = "input"
    /\ rejected < MaxRejected
    /\ \E line \in Lines : raw' = line
    /\ pc' = <<pc[1], "turn">>
    /\ UNCHANGED <<rejected, notices, ret, calcVars, httpVars>>

\* the rest of the loop body: return the value, or print the notice and loop
\* (an exception the body does not catch would leave the function)
Turn(f, t) ==
    /\ pc = <<f, "turn">>
    /\ IF t.kind = "return"
       THEN /\ pc' = <<f, "returned">>
            /\ ret' = t.value
            /\ UNCHANGED <<raw, rejected, notices>>
       ELSE IF t.kind = "retry"
       THEN /\ pc' = <<f, "input">>
            /\ raw' = <<>>
            /\ rejected' = rejected + 1
            /\ notices' = notices + t.printed
            /\ UNCHANGED ret
       ELSE /\ pc' = <<f, "raised">>
            /\ UNCHANGED <<raw, rejected, notices, ret>>
    /\ UNCHANGED <<calcVars, httpVars>>

AskFloatTurn == Turn("ask_float", ask_float_turn(raw))

AskChoiceTurn == Turn("ask_choice", ask_choice_turn(raw, MenuKeys))

\* the caller takes the returned value; the prompt's frame is gone
PromptReturns ==
    /\ pc[2] = "returned"
    /\ pc' = NoPrompt
    /\ raw' = <<>>
    /\ rejected' = 0
    /\ notices' = 0
    /\ ret' = <<>>
    /\ UNCHANGED <<calcVars, httpVars>>

ConsoleNext ==
    \/ StartPrompt
    \/ ReadLine
    \/ AskFloatTurn
    \/ AskChoiceTurn
    \/ PromptReturns

Next ==
    \/ CallComputeLumpSum
    \/ CallComputeRenta
    \/ DiscardResult
    \/ PostCalc
    \/ CloseExchange
    \/ ConsoleNext

Spec == Init /\ [][Next]_vars

\* the console alone; a turn of a prompt's loop, once enabled, is taken (the
\* interpreter runs the loop body to its end once input() has returned)
ConsoleSpec ==
    /\ Init
    /\ [][ConsoleNext]_vars
    /\ WF_vars(AskFloatTurn)
    /\ WF_vars(AskChoiceTurn)

----------------------------------------------------------------------------
(* Properties of POST /calc *)

\* a request is being answered and its body passed the schema validation
Handled == body # NoBody /\ SchemaErrors(body) = <<>>

NotSupplied(k) == body[k].t \in {"absent", "null"}

\* the fields the goal type needs, in the order the request class declares them
NeededFor(goal) ==
    IF goal = "lump_sum" THEN <<"target_amount", "years", "annual_rate_accum">>
    ELSE <<"monthly_rent", "years_rent", "annual_rate_rent", "years_saving", "annual_rate_accum">>

NotSuppliedFor(goal) == SelectSeq(NeededFor(goal), NotSupplied)

\* C1: a schema-valid request for "lump_sum" (resp. "renta") in which a needed
\* field is absent or null is answered 400, the detail naming exactly the needed
\* fields that are not supplied, in declaration order, and no calculator runs.
C1_MissingFieldsAnswered400 ==
    (Handled /\ NotSuppliedFor(body.goal_type) # <<>>) =>
        /\ response.status = 400
        /\ response.detail.fields = NotSuppliedFor(body.goal_type)
        /\ response.detail.text =
              (IF body.goal_type = "lump_sum" THEN "Missing fields for lump_sum"
               ELSE "Missing fields for renta")
        /\ invoked = "none"

\* a lump-sum request with target_amount null, years absent and a rate of 0
\* answered 400 with ["target_amount", "years"]
C1_Witness ==
    /\ Handled
    /\ body.goal_type = "lump_sum"
    /\ body.target_amount.t = "null"
    /\ body.years.t = "absent"
    /\ body.annual_rate_accum.t = "num"
    /\ response.status = 400
    /\ response.detail.fields = <<"target_amount", "years">>

\* C4: a request whose goal_type is neither "lump_sum" nor "renta" is answered
\* 400, whatever its other fields.
C4_UnknownGoalTypeAnswered400 ==
    (body # NoBody /\ body.goal_type \notin {"lump_sum", "renta"}) =>
        response.status = 400

\* the calculator input the handler builds from a complete request
GivenOrZero(k) == IF body[k].t = "num" THEN body[k].v ELSE Zero

Computation ==
    IF body.goal_type = "lump_sum"
    THEN compute_lump_sum([target_amount |-> body.target_amount.v,
                           years |-> body.years.v,
                           annual_rate_accum |-> body.annual_rate_accum.v,
                           investment_type |-> body.investment_type,
                           one_time_investment |-> GivenOrZero("one_time_investment")])
    ELSE compute_renta([monthly_rent |-> body.monthly_rent.v,
                        years_rent |-> body.years_rent.v,
                        annual_rate_rent |-> body.annual_rate_rent.v,
                        years_saving |-> body.years_saving.v,
                        annual_rate_accum |-> body.annual_rate_accum.v,
                        investment_type |-> body.investment_type,
                        one_time_investment |-> GivenOrZero("one_time_investment")])

\* the keys of a complete result record
CompleteKeys(goal, inv) ==
    (IF goal = "lump_sum"
     THEN {"goal_type", "investment_type", "target_amount", "years", "annual_rate_accum"}
     ELSE {"goal_type", "investment_type", "monthly_rent", "years_rent", "annual_rate_rent",
           "years_saving", "annual_rate_accum", "required_wealth_at_rent_start"})
    \cup (IF inv = "one_time" THEN {"required_wealth_today"}
          ELSE IF inv = "monthly" THEN {"monthly_investment"}
          ELSE {"one_time_investment", "monthly_investment", "fv_one_time_investment",
                "target_amount_remaining_for_monthly"})

\* C5: an invocation of the handler ends in exactly one of: 200 with a complete
\* result record, 400 for a validation error, 500 whose detail is the text of the
\* exception the computation raised. A 400 never turns into a 500 and no
\* response carries a part of a result.
C5_ThreeOutcomes ==
    Handled =>
        /\ response.status \in {200, 400, 500}
        /\ DOMAIN response = (IF response.status = 200 THEN {"status", "json"}
                              ELSE {"status", "detail"})
        /\ (NotSuppliedFor(body.goal_type) # <<>>) <=> (response.status = 400)
        /\ (NotSuppliedFor(body.goal_type) = <<>>) =>
              /\ (response.status = 500) <=> (Computation.kind = "raise")
              /\ (response.status = 500) => response.detail.text = Computation.text
              /\ (response.status = 200) =>
                    /\ response.json = Computation.value
                    /\ DOMAIN response.json =
                          CompleteKeys(body.goal_type, body.investment_type)

\* a complete monthly lump-sum request over 0 months answered 500 with the text
\* of the ZeroDivisionError
C5_Witness ==
    /\ Handled
    /\ NotSuppliedFor(body.goal_type) = <<>>
    /\ body.goal_type = "lump_sum"
    /\ body.investment_type = "monthly"
    /\ response.status = 500
    /\ response.detail.text = "float division by zero"

----------------------------------------------------------------------------
(* Properties of the calculators *)

Called(fn) == call # NoCall /\ call.fn = fn
Returned == call # NoCall /\ outcome.kind = "return"

\* the month count the calculator derives from the accumulation horizon
Months ==
    IF call.fn = "compute_lump_sum"
    THEN PyRound(QMul(call.input.years, FromInt(12)))
    ELSE PyRound(QMul(call.input.years_saving, FromInt(12)))

\* the target of the accumulation: target_amount, resp. required_wealth_at_rent_start
Target ==
    IF call.fn = "compute_lump_sum" THEN outcome.value.target_amount
    ELSE outcome.value.required_wealth_at_rent_start

QLe(a, b) == ~QLt(b, a)

\* C2 as stated: every result of the COMBINED branch has a monthly_investment
\* that is not negative, and a remaining target of 0 whenever the future value
\* of the one-time investment reaches the target.
C2_NeverNegativeMonthly ==
    (Returned /\ call.input.investment_type = "combined") =>
        /\ QLe(Zero, outcome.value.monthly_investment)
        /\ QLe(Target, outcome.value.fv_one_time_investment) =>
              outcome.value.target_amount_remaining_for_monthly = Zero

\* C2 amended: the same for the inputs whose accumulation horizon rounds to at
\* least one month; the second half for every result of the branch.
C2_NeverNegativeMonthlyPositiveHorizon ==
    (Returned /\ call.input.investment_type = "combined") =>
        /\ Months >= 1 => QLe(Zero, outcome.value.monthly_investment)
        /\ QLe(Target, outcome.value.fv_one_time_investment) =>
              outcome.value.target_amount_remaining_for_monthly = Zero

\* a COMBINED call over at least one month whose one-time investment outgrows
\* the target: nothing remains and the monthly investment is 0
C2_Witness ==
    /\ Returned
    /\ call.input.investment_type = "combined"
    /\ Months >= 1
    /\ QLt(Target, outcome.value.fv_one_time_investment)
    /\ outcome.value.target_amount_remaining_for_monthly = Zero
    /\ outcome.value.monthly_investment = Zero

\* the horizons and the rates of the call
HorizonsOf(input_data) ==
    IF call.fn = "compute_lump_sum" THEN {input_data.years}
    ELSE {input_data.years_rent, input_data.years_saving}

RatesOf(input_data) ==
    IF call.fn = "compute_lump_sum" THEN {input_data.annual_rate_accum}
    ELSE {input_data.annual_rate_rent, input_data.annual_rate_accum}

\* at a rate of 0 the annuity functions are payment * n, fv / n and monthly_rent * n
ZeroRateIsLinear ==
    \A a \in AmountSet :
        /\ fv_annuity(a, Zero, Months) = QMul(a, FromInt(Months))
        /\ Months # 0 => annuity_from_fv(a, Zero, Months) = Q(a[1], Months)
        /\ pv_renta_required(a, Zero, Q(Months, 12)) = QMul(a, FromInt(Months))

\* C3: no call of a calculator ends in a division by zero, and at a rate of 0
\* the annuity functions are linear in n. Stated here for the inputs of the data
\* model alone (horizons above 0, rates from 0%), which the claim's "every
\* finite input record" covers.
C3_NoDivisionByZero ==
    (/\ call # NoCall
     /\ \A y \in HorizonsOf(call.input) : QLt(Zero, y)
     /\ \A r \in RatesOf(call.input) : QLe(Zero, r)) =>
        /\ ~(outcome.kind = "raise" /\ outcome.exc = "ZeroDivisionError")
        /\ ZeroRateIsLinear

\* C6: the keys of a returned record depend on the goal and the investment type
\* alone: the goal's echoed fields, required_wealth_today for ONE_TIME only,
\* monthly_investment for MONTHLY and COMBINED only, the one-time investment,
\* its future value and the remaining target for COMBINED only; and the echoed
\* values are the inputs.
C6_KeySetByBranch ==
    Returned =>
        LET goal == IF call.fn = "compute_lump_sum" THEN "lump_sum" ELSE "renta"
            inv == call.input.investment_type
            echoed == IF goal = "lump_sum"
                      THEN {"target_amount", "years", "annual_rate_accum"}
                      ELSE {"monthly_rent", "years_rent", "annual_rate_rent",
                            "years_saving", "annual_rate_accum"}
            keys == DOMAIN outcome.value
        IN  /\ keys = CompleteKeys(goal, inv)
            /\ outcome.value.goal_type = goal
            /\ outcome.value.investment_type = inv
            /\ \A k \in echoed : outcome.value[k] = call.input[k]
            /\ ("required_wealth_today" \in keys) <=> (inv = "one_time")
            /\ ("monthly_investment" \in keys) <=> (inv \in {"monthly", "combined"})
            /\ ("fv_one_time_investment" \in keys) <=> (inv = "combined")
            /\ ("target_amount_remaining_for_monthly" \in keys) <=> (inv = "combined")
            /\ (goal = "renta") <=> ("required_wealth_at_rent_start" \in keys)

\* a MONTHLY lump-sum call over a horizon that is not a whole number of months
C6_Witness ==
    /\ Returned
    /\ Called("compute_lump_sum")
    /\ call.input.investment_type = "monthly"
    /\ call.input.years = Q(1, 8)
    /\ outcome.value.years = Q(1, 8)
    /\ "monthly_investment" \in DOMAIN outcome.value

BranchFields ==
    {"required_wealth_today", "monthly_investment", "one_time_investment",
     "fv_one_time_investment", "target_amount_remaining_for_monthly"}

\* the lump-sum calculation the renta call's accumulation stage stands for
LumpSumOf(input_data, wealth) ==
    compute_lump_sum([target_amount |-> wealth,
                      years |-> input_data.years_saving,
                      annual_rate_accum |-> input_data.annual_rate_accum,
                      investment_type |-> input_data.investment_type,
                      one_time_investment |-> input_data.one_time_investment])

\* C7: the branch fields of compute_renta(r) are those of compute_lump_sum for
\* the target required_wealth_at_rent_start of r over years_saving at
\* annual_rate_accum, same investment type and one-time investment; and when the
\* required wealth is computed, the one raises exactly when the other does.
C7_RentaAccumulatesAsLumpSum ==
    Called("compute_renta") =>
        LET wealth == pv_renta_required(call.input.monthly_rent,
                                        call.input.annual_rate_rent,
                                        call.input.years_rent)
        IN  IF outcome.kind = "return"
            THEN LET lump == LumpSumOf(call.input, outcome.value.required_wealth_at_rent_start)
                 IN  /\ lump.kind = "return"
                     /\ \A k \in BranchFields :
                           /\ (k \in DOMAIN outcome.value) <=> (k \in DOMAIN lump.value)
                           /\ (k \in DOMAIN outcome.value) => outcome.value[k] = lump.value[k]
            ELSE Raised(wealth) \/ LumpSumOf(call.input, wealth) = outcome

\* a COMBINED renta call with different drawdown and saving horizons and a
\* positive monthly investment
C7_Witness ==
    /\ Called("compute_renta")
    /\ Returned
    /\ call.input.investment_type = "combined"
    /\ call.input.years_rent # call.input.years_saving
    /\ QLt(Zero, outcome.value.monthly_investment)
    /\ QLt(Zero, outcome.value.fv_one_time_investment)

\* C8: under ONE_TIME and MONTHLY the one-time investment changes nothing: the
\* calculators return the same for every value of it, and POST /calc answers
\* the same whether it is absent, null or any number.
C8_OneTimeInvestmentIgnored ==
    /\ (Called("compute_lump_sum") /\ call.input.investment_type # "combined") =>
          \A o \in AmountSet :
              compute_lump_sum([call.input EXCEPT !.one_time_investment = o]) = outcome
    /\ (Called("compute_renta") /\ call.input.investment_type # "combined") =>
          \A o \in AmountSet :
              compute_renta([call.input EXCEPT !.one_time_investment = o]) = outcome
    /\ (Handled /\ body.investment_type # "combined") =>
          \A v \in NotGiven \cup {Num(a) : a \in AmountSet} :
              post_calc([body EXCEPT !.one_time_investment = v]).response = response

\* a ONE_TIME call with a one-time investment of 2 that returned
C8_Witness ==
    /\ Called("compute_lump_sum")
    /\ Returned
    /\ call.input.investment_type = "one_time"
    /\ call.input.one_time_investment = FromInt(2)

\* the same call under MONTHLY
MonthlyTwin ==
    IF call.fn = "compute_lump_sum"
    THEN compute_lump_sum([call.input EXCEPT !.investment_type = "monthly"])
    ELSE compute_renta([call.input EXCEPT !.investment_type = "monthly"])

\* C10: with a one-time investment of 0 and a target that is not negative,
\* COMBINED returns the monthly_investment MONTHLY returns (and returns exactly
\* when MONTHLY does), the future value of the one-time investment being 0 and
\* the remaining target the target; with a negative target the two differ.
C10_CombinedWithoutDepositIsMonthly ==
    (call # NoCall /\ call.input.investment_type = "combined"
        /\ call.input.one_time_investment = Zero) =>
        /\ Returned =>
              /\ outcome.value.fv_one_time_investment = Zero
              /\ MonthlyTwin.kind = "return"
              /\ IF QLe(Zero, Target)
                 THEN /\ outcome.value.monthly_investment = MonthlyTwin.value.monthly_investment
                      /\ outcome.value.target_amount_remaining_for_monthly = Target
                 ELSE outcome.value.monthly_investment # MonthlyTwin.value.monthly_investment
        /\ (outcome.kind = "raise") => MonthlyTwin = outcome

\* a COMBINED renta call without deposit, with a positive target and a positive
\* monthly investment
C10_Witness ==
    /\ Called("compute_renta")
    /\ Returned
    /\ call.input.investment_type = "combined"
    /\ call.input.one_time_investment = Zero
    /\ QLt(Zero, Target)
    /\ QLt(Zero, outcome.value.monthly_investment)
    /\ outcome.value.monthly_investment = MonthlyTwin.value.monthly_investment

----------------------------------------------------------------------------
(* Properties of the console prompts *)

\* the entry as ask_float reads it: no spaces, every comma a point
Canon(line) ==
    LET t == SelectSeq(line, LAMBDA c : c # " ")
    IN  [k \in 1..Len(t) |-> IF t[k] = "," THEN "." ELSE t[k]]

\* the entry as ask_choice reads it: without the spaces around it
Trimmed(line) ==
    LET inked == {k \in DOMAIN line : line[k] # " "}
    IN  IF inked = {} THEN <<>>
        ELSE SubSeq(line, CHOOSE k \in inked : \A j \in inked : k <= j,
                          CHOOSE k \in inked : \A j \in inked : j <= k)

\* the entry is one the prompt function f takes, and the value it stands for
Accepts(f, line) ==
    IF f = "ask_float" THEN ~Raised(float(Canon(line))) ELSE Trimmed(line) \in MenuKeys

ValueOf(f, line) == IF f = "ask_float" THEN float(Canon(line)) ELSE Trimmed(line)

\* C9: ask_float and ask_choice are retry loops. An entry that is no number
\* (resp. no menu key) is answered with a message and the prompt comes again; the
\* function returns on the first entry that is one, with the value of that entry;
\* no entry makes the function raise; and an entry that is one ends the prompt.
C9_RetryLoop ==
    /\ [][/\ pc[2] = "turn" =>
                IF Accepts(pc[1], raw)
                THEN pc' = <<pc[1], "returned">> /\ ret' = ValueOf(pc[1], raw)
                        /\ notices' = notices
                ELSE pc' = <<pc[1], "input">> /\ notices' = notices + 1 /\ ret' = ret
           /\ (pc'[2] = "returned" /\ pc[2] # "returned") =>
                (pc[2] = "turn" /\ Accepts(pc[1], raw))]_vars
    /\ [](pc[2] # "raised" /\ notices = rejected)
    /\ \A f \in {"ask_float", "ask_choice"} :
          (pc = <<f, "turn">> /\ Accepts(f, raw)) ~> (pc = <<f, "returned">>)

\* ask_float returned 1.2 for the entry "1,2", after one rejected entry
C9_Witness ==
    /\ pc = <<"ask_float", "returned">>
    /\ raw = <<"1", ",", "2">>
    /\ ret = Q(6, 5)
    /\ rejected = 1
    /\ notices = 1
====
